---- MODULE Spec2Model ----
(***************************************************************************)
(* Model of the race-registration watcher: watch_races.py (date based      *)
(* watcher with Teams/e-mail sinks and a last-record-per-url state) and    *)
(* check_registrations.py (keyword monitor with an alert history).         *)
(*                                                                         *)
(* Texts are sequences of lexical tokens (words, numbers, punctuation and  *)
(* the one-blank token " "), every token a string.  The regular            *)
(* expressions of the source are matched token by token: a character       *)
(* class is the set of vocabulary tokens it accepts, \s+ is a run of       *)
(* blanks, a literal blank is exactly one blank.                           *)
(***************************************************************************)
EXTENDS Integers, Sequences, FiniteSets, TLC

VARIABLES
    prog,      \* which script the workflow runs: "wr" (watch_races) or "cr"
    cfg,       \* the loaded configuration document
    openingDates, \* extract_opening_date of every page text (a pure
               \* function, evaluated once when the model starts)
    env,       \* watch_races: which sinks the environment configures
    now,       \* the clock, in whole days (proleptic Gregorian ordinal)
    disk,      \* the persisted state file
    state,     \* the state held in memory during a run
    pc,        \* position of main: "idle", "events", "urls", "aborted"
    ei,        \* index of the next event of the for-loop
    ui,        \* index of the next url of the inner for-loop
    urls,      \* the url sequence the inner loop iterates
    newAlerts, \* check_registrations: new_alerts of the running run
    runs,      \* number of runs started
    iters,     \* number of url iterations made, over all runs
    fetched,   \* number of fetch calls made by the running (or last) run
    saves,     \* number of times the state file was written
    last,      \* what the latest per-url iteration did (the printed line)
    lastSent,  \* history: per signature, when the sinks last got it
    lastPage,  \* history: per url, the page text of the latest notification
    ptext,     \* parser harness: the input text
    pres,      \* parser harness: the result
    ppc        \* parser harness: "in", "parsed", "extracted"

vars == <<prog, cfg, openingDates, env, now, disk, state, pc, ei, ui, urls, newAlerts,
          runs, iters, fetched, saves, last, lastSent, lastPage, ptext, pres, ppc>>

mainVars == <<prog, cfg, openingDates, env, now, disk, state, pc, ei, ui, urls, newAlerts,
              runs, iters, fetched, saves, last, lastSent, lastPage>>

parseVars == <<ptext, pres, ppc>>

(***************************************************************************)
(* Tokens                                                                  *)
(***************************************************************************)
SP == " "

\* tokens of one or two digits (\d{1,2}) and their int() value
NumVal ==
    [s \in {"0", "5", "8", "10", "01", "12", "14", "31", "45"} |->
        CASE s = "0" -> 0 [] s = "5" -> 5 [] s = "8" -> 8 [] s = "10" -> 10
          [] s = "01" -> 1 [] s = "12" -> 12 [] s = "14" -> 14
          [] s = "31" -> 31 [] s = "45" -> 45]

\* tokens of four digits (\d{4}) and their int() value
YearVal ==
    [s \in {"2025", "2026", "2028"} |->
        CASE s = "2025" -> 2025 [] s = "2026" -> 2026 [] s = "2028" -> 2028]

IsNum12(s) == s \in DOMAIN NumVal

IsYear4(s) == s \in DOMAIN YearVal

\* [0-3]?\d followed by a non-digit: one digit, or two digits starting 0..3
IsDayTok(s) == IsNum12(s) /\ NumVal[s] <= 39

\* str.lower() on the words of the vocabulary that have capitals
LowerTab ==
    [s \in {"January", "March", "Jan", "Foo", "Registration", "Registrations",
            "Opens", "Open", "Closed", "Sold", "Out", "Register", "Now",
            "De", "Janeiro", "Enero", "Marzo", "Inscripciones"} |->
        CASE s = "January" -> "january" [] s = "March" -> "march"
          [] s = "Jan" -> "jan" [] s = "Foo" -> "foo"
          [] s = "Registration" -> "registration"
          [] s = "Registrations" -> "registrations"
          [] s = "Opens" -> "opens" [] s = "Open" -> "open"
          [] s = "Closed" -> "closed" [] s = "Sold" -> "sold"
          [] s = "Out" -> "out" [] s = "Register" -> "register"
          [] s = "Now" -> "now" [] s = "De" -> "de"
          [] s = "Janeiro" -> "janeiro" [] s = "Enero" -> "enero"
          [] s = "Marzo" -> "marzo" [] s = "Inscripciones" -> "inscripciones"]

Lower(s) == IF s \in DOMAIN LowerTab THEN LowerTab[s] ELSE s

LowerSeq(t) == [i \in 1..Len(t) |-> Lower(t[i])]

\* punctuation and blank: the non-word characters of the vocabulary
Punct == {SP, "/", "-", ".", ","}

\* lower-case words holding a letter outside a-z
AccentWords == {"março", "irán", "abrirán", "inscrições", "abrirão"}

\* lower-case words of fewer than three letters
ShortWords == {"s", "de", "on", "el", "la", "em", "en", "se"}

\* a token made of word characters (\w+): a word or a number
IsWordTok(s) == s /= "" /\ s \notin Punct

IsLetters(s) == IsWordTok(s) /\ ~IsNum12(s) /\ ~IsYear4(s)

\* [A-Za-z]+
IsAsciiWord(s) == IsLetters(s) /\ Lower(s) \notin AccentWords

\* [a-zçãéíóú]+ under IGNORECASE
IsPtWord(s) == IsLetters(s) /\ Lower(s) \notin {"irán", "abrirán", "inscrições", "abrirão"}

\* [a-záéíóúñ]+ under IGNORECASE
IsEsWord(s) == IsLetters(s) /\ Lower(s) \notin {"março", "inscrições", "abrirão"}

\* the letter class of the long pt / es patterns
IsLangWord(lang, s) == IF lang = "pt" THEN IsPtWord(s) ELSE IsEsWord(s)

Tok(t, i) == IF i \in 1..Len(t) THEN t[i] ELSE ""

\* \b before position i / after position i-1
BoundaryBefore(t, i) == ~IsWordTok(Tok(t, i - 1))

BoundaryAfter(t, i) == ~IsWordTok(Tok(t, i + 1))

RECURSIVE SkipWs(_, _)
\* the index after the run of blanks that starts at i (i itself if none)
SkipWs(t, i) == IF Tok(t, i) = SP THEN SkipWs(t, i + 1) ELSE i

\* \s+ at i: 0 when there is no blank, else the index after the run
Ws1(t, i) == IF Tok(t, i) = SP THEN SkipWs(t, i) ELSE 0

Slice(t, a, b) == [k \in 1..(b - a + 1) |-> t[a + k - 1]]

(***************************************************************************)
(* Dates                                                                   *)
(***************************************************************************)
None == [y |-> 0, m |-> 0, d |-> 0]

IsLeap(y) == (y % 4 = 0) /\ ((y % 100 /= 0) \/ (y % 400 = 0))

DaysInMonth(y, m) ==
    IF m = 2 THEN (IF IsLeap(y) THEN 29 ELSE 28)
    ELSE IF m \in {4, 6, 9, 11} THEN 30 ELSE 31

RECURSIVE DaysBeforeMonth(_, _)
DaysBeforeMonth(y, m) ==
    IF m <= 1 THEN 0 ELSE DaysBeforeMonth(y, m - 1) + DaysInMonth(y, m - 1)

DaysBeforeYear(y) ==
    (y - 1) * 365 + ((y - 1) \div 4) - ((y - 1) \div 100) + ((y - 1) \div 400)

\* date.toordinal()
ToOrdinal(dt) == DaysBeforeYear(dt.y) + DaysBeforeMonth(dt.y, dt.m) + dt.d

\* date(y, mn, d): None stands for the ValueError of an impossible date
MkDate(y, mn, d) ==
    IF y \in 1..9999 /\ mn \in 1..12 /\ d >= 1 /\ d <= DaysInMonth(y, mn)
    THEN [y |-> y, m |-> mn, d |-> d]
    ELSE None

PT_MONTHS ==
    [s \in {"janeiro", "fevereiro", "março", "marco", "abril", "maio", "junho",
            "julho", "agosto", "setembro", "outubro", "novembro", "dezembro"} |->
        CASE s = "janeiro" -> 1 [] s = "fevereiro" -> 2 [] s = "março" -> 3
          [] s = "marco" -> 3 [] s = "abril" -> 4 [] s = "maio" -> 5
          [] s = "junho" -> 6 [] s = "julho" -> 7 [] s = "agosto" -> 8
          [] s = "setembro" -> 9 [] s = "outubro" -> 10 [] s = "novembro" -> 11
          [] s = "dezembro" -> 12]

ES_MONTHS ==
    [s \in {"enero", "febrero", "marzo", "abril", "mayo", "junio", "julio",
            "agosto", "septiembre", "setiembre", "octubre", "noviembre",
            "diciembre"} |->
        CASE s = "enero" -> 1 [] s = "febrero" -> 2 [] s = "marzo" -> 3
          [] s = "abril" -> 4 [] s = "mayo" -> 5 [] s = "junio" -> 6
          [] s = "julio" -> 7 [] s = "agosto" -> 8 [] s = "septiembre" -> 9
          [] s = "setiembre" -> 9 [] s = "octubre" -> 10 [] s = "noviembre" -> 11
          [] s = "diciembre" -> 12]

EN_MONTHS ==
    [s \in {"january", "february", "march", "april", "may", "june", "july",
            "august", "september", "october", "november", "december"} |->
        CASE s = "january" -> 1 [] s = "february" -> 2 [] s = "march" -> 3
          [] s = "april" -> 4 [] s = "may" -> 5 [] s = "june" -> 6
          [] s = "july" -> 7 [] s = "august" -> 8 [] s = "september" -> 9
          [] s = "october" -> 10 [] s = "november" -> 11 [] s = "december" -> 12]

\* dict.get(key, None): 0 stands for None (no month has number 0)
Get(tab, key) == IF key \in DOMAIN tab THEN tab[key] ELSE 0

\* mon.replace('ç','c').replace('ã','a')
Deaccent(s) == IF s = "março" THEN "marco" ELSE s

(***************************************************************************)
(* DATE_PATTERNS and parse_date_fragment                                   *)
(***************************************************************************)
NoMatch == [end |-> 0, d |-> "", mon |-> "", y |-> ""]

\* r'\b([0-3]?\d)/\-\./\-\.\b': a day, the six literal characters "/-./-."
\* and a word character next.  The pattern has ONE group.
MatchDmyNumeric(t, i) ==
    IF /\ BoundaryBefore(t, i)
       /\ IsDayTok(Tok(t, i))
       /\ Tok(t, i + 1) = "/" /\ Tok(t, i + 2) = "-" /\ Tok(t, i + 3) = "."
       /\ Tok(t, i + 4) = "/" /\ Tok(t, i + 5) = "-" /\ Tok(t, i + 6) = "."
       /\ IsWordTok(Tok(t, i + 7))
    THEN [end |-> i + 7, d |-> t[i], mon |-> "", y |-> ""]
    ELSE NoMatch

\* r'\b([0-3]?\d)\s+de\s+(<class>+)\s+de\s+(\d{4})\b'
MatchLongDe(t, i, lang) ==
    LET j1 == Ws1(t, i + 1)
        j2 == Ws1(t, j1 + 1)
        j3 == Ws1(t, j2 + 1)
        j4 == Ws1(t, j3 + 1)
    IN  IF /\ BoundaryBefore(t, i)
           /\ IsDayTok(Tok(t, i))
           /\ j1 /= 0 /\ Lower(Tok(t, j1)) = "de"
           /\ j2 /= 0 /\ IsLangWord(lang, Tok(t, j2))
           /\ j3 /= 0 /\ Lower(Tok(t, j3)) = "de"
           /\ j4 /= 0 /\ IsYear4(Tok(t, j4))
           /\ BoundaryAfter(t, j4)
        THEN [end |-> j4 + 1, d |-> t[i], mon |-> t[j2], y |-> t[j4]]
        ELSE NoMatch

\* r'\b([A-Za-z]+)\s+([0-3]?\d),\s*(\d{4})\b'
MatchEnLong(t, i) ==
    LET j1 == Ws1(t, i + 1)
        j2 == SkipWs(t, j1 + 2)
    IN  IF /\ BoundaryBefore(t, i)
           /\ IsAsciiWord(Tok(t, i))
           /\ j1 /= 0 /\ IsDayTok(Tok(t, j1))
           /\ Tok(t, j1 + 1) = ","
           /\ IsYear4(Tok(t, j2))
           /\ BoundaryAfter(t, j2)
        THEN [end |-> j2 + 1, d |-> t[j1], mon |-> t[i], y |-> t[j2]]
        ELSE NoMatch

\* r'\b([0-3]?\d)\s+([A-Za-z]{3,})[,]?\s+(\d{4})\b'
MatchDayMonAny(t, i) ==
    LET j1 == Ws1(t, i + 1)
        c  == IF Tok(t, j1 + 1) = "," THEN j1 + 2 ELSE j1 + 1
        j2 == Ws1(t, c)
    IN  IF /\ BoundaryBefore(t, i)
           /\ IsDayTok(Tok(t, i))
           /\ j1 /= 0 /\ IsAsciiWord(Tok(t, j1))
           /\ Lower(Tok(t, j1)) \notin ShortWords
           /\ j2 /= 0 /\ IsYear4(Tok(t, j2))
           /\ BoundaryAfter(t, j2)
        THEN [end |-> j2 + 1, d |-> t[i], mon |-> t[j1], y |-> t[j2]]
        ELSE NoMatch

DATE_PATTERNS == <<"dmy_numeric", "pt_long", "es_long", "en_long", "day_mon_any">>

MatchDate(kind, t, i) ==
    CASE kind = "dmy_numeric" -> MatchDmyNumeric(t, i)
      [] kind = "pt_long"     -> MatchLongDe(t, i, "pt")
      [] kind = "es_long"     -> MatchLongDe(t, i, "es")
      [] kind = "en_long"     -> MatchEnLong(t, i)
      [] kind = "day_mon_any" -> MatchDayMonAny(t, i)

\* a or b, on month numbers (0 is falsy)
Or(a, b) == IF a /= 0 THEN a ELSE b

\* the body of the try block for one match: the date, or None where the
\* code continues (no month, IndexError of m.group(2), ValueError of date())
ConvertMatch(kind, m) ==
    LET mon == Lower(m.mon)
        mn  == CASE kind = "pt_long" ->
                      IF mon \in DOMAIN PT_MONTHS THEN PT_MONTHS[mon]
                      ELSE Get(PT_MONTHS, Deaccent(mon))
                 [] kind = "es_long" -> Get(ES_MONTHS, mon)
                 [] kind = "en_long" -> Get(EN_MONTHS, mon)
                 [] kind = "day_mon_any" ->
                      Or(Get(EN_MONTHS, mon),
                         Or(Get(PT_MONTHS, mon), Get(ES_MONTHS, mon)))
                 [] OTHER -> 0
    IN  IF kind = "dmy_numeric" THEN None   \* m.group(2): no such group
        ELSE IF mn = 0 THEN None
        ELSE MkDate(YearVal[m.y], mn, NumVal[m.d])

RECURSIVE ScanKind(_, _, _)
\* for m in pat[0].finditer(t): the first match that converts
ScanKind(kind, t, i) ==
    IF i > Len(t) THEN None
    ELSE LET m == MatchDate(kind, t, i)
         IN  IF m.end = 0 THEN ScanKind(kind, t, i + 1)
             ELSE LET r == ConvertMatch(kind, m)
                  IN  IF r /= None THEN r ELSE ScanKind(kind, t, m.end)

RECURSIVE ParseFrom(_, _)
ParseFrom(t, k) ==
    IF k > Len(DATE_PATTERNS) THEN None
    ELSE LET r == ScanKind(DATE_PATTERNS[k], t, 1)
         IN  IF r /= None THEN r ELSE ParseFrom(t, k + 1)

parse_date_fragment(fragment) == ParseFrom(LowerSeq(fragment), 1)

(***************************************************************************)
(* OPENING_PHRASES and extract_opening_date                                *)
(***************************************************************************)
NoPhrase == [end |-> 0, frag |-> <<>>]

\* [A-Za-z]+ \d{1,2}, \d{4} | \d{1,2}\s+[A-Za-z]+\s+\d{4} | \d{1,2}[/-]\d{1,2}[/-]\d{4}
\* the index after the date that starts at i, 0 if none
DateAltEn(t, i) ==
    LET j == Ws1(t, i + 1)
        k == Ws1(t, j + 1)
    IN  IF /\ IsAsciiWord(Tok(t, i)) /\ Tok(t, i + 1) = SP
           /\ IsNum12(Tok(t, i + 2)) /\ Tok(t, i + 3) = ","
           /\ Tok(t, i + 4) = SP /\ IsYear4(Tok(t, i + 5))
        THEN i + 6
        ELSE IF /\ IsNum12(Tok(t, i)) /\ j /= 0 /\ IsAsciiWord(Tok(t, j))
                /\ k /= 0 /\ IsYear4(Tok(t, k))
        THEN k + 1
        ELSE IF /\ IsNum12(Tok(t, i)) /\ Tok(t, i + 1) \in {"/", "-"}
                /\ IsNum12(Tok(t, i + 2)) /\ Tok(t, i + 3) \in {"/", "-"}
                /\ IsYear4(Tok(t, i + 4))
        THEN i + 5
        ELSE 0

\* \d{1,2}\s+de\s+<class>+\s+de\s+\d{4}
DateAltDe(t, i, lang) ==
    LET j1 == Ws1(t, i + 1)
        j2 == Ws1(t, j1 + 1)
        j3 == Ws1(t, j2 + 1)
        j4 == Ws1(t, j3 + 1)
    IN  IF /\ IsNum12(Tok(t, i))
           /\ j1 /= 0 /\ Lower(Tok(t, j1)) = "de"
           /\ j2 /= 0 /\ IsLangWord(lang, Tok(t, j2))
           /\ j3 /= 0 /\ Lower(Tok(t, j3)) = "de"
           /\ j4 /= 0 /\ IsYear4(Tok(t, j4))
        THEN j4 + 1
        ELSE 0

RECURSIVE JoinGroups(_)
\* " ".join(g for g in m.groups() if g)
JoinGroups(gs) ==
    IF gs = <<>> THEN <<>>
    ELSE LET rest == JoinGroups(Tail(gs))
         IN  IF Head(gs) = <<>> THEN rest
             ELSE IF rest = <<>> THEN Head(gs)
             ELSE Head(gs) \o <<SP>> \o rest

\* \bregistration(s)? (will )?open(s)? on\s+(<date>)
Phrase1(t, i) ==
    LET w1   == Lower(Tok(t, i))
        will == Lower(Tok(t, i + 2)) = "will" /\ Tok(t, i + 3) = SP
        j    == IF will THEN i + 4 ELSE i + 2
        w2   == Lower(Tok(t, j))
        k    == Ws1(t, j + 3)
        e    == DateAltEn(t, k)
    IN  IF /\ BoundaryBefore(t, i)
           /\ w1 \in {"registration", "registrations"}
           /\ Tok(t, i + 1) = SP
           /\ w2 \in {"open", "opens"}
           /\ Tok(t, j + 1) = SP /\ Lower(Tok(t, j + 2)) = "on"
           /\ k /= 0 /\ e /= 0
        THEN [end |-> e,
              frag |-> JoinGroups(<<IF w1 = "registrations" THEN <<"s">> ELSE <<>>,
                                    IF will THEN <<t[i + 2], SP>> ELSE <<>>,
                                    IF w2 = "opens" THEN <<"s">> ELSE <<>>,
                                    Slice(t, k, e - 1)>>)]
        ELSE NoPhrase

\* \bopens on\s+(<date>)
Phrase2(t, i) ==
    LET k == Ws1(t, i + 3)
        e == DateAltEn(t, k)
    IN  IF /\ BoundaryBefore(t, i)
           /\ Lower(Tok(t, i)) = "opens" /\ Tok(t, i + 1) = SP
           /\ Lower(Tok(t, i + 2)) = "on"
           /\ k /= 0 /\ e /= 0
        THEN [end |-> e, frag |-> JoinGroups(<<Slice(t, k, e - 1)>>)]
        ELSE NoPhrase

\* \b(la|las)\s+inscripciones?\s+(se\s+)?abr(ir[aá]n|en)\s+el\s+(<date es>)
Phrase3(t, i) ==
    LET j1 == Ws1(t, i + 1)
        j2 == Ws1(t, j1 + 1)
        se == j2 /= 0 /\ Lower(Tok(t, j2)) = "se" /\ Ws1(t, j2 + 1) /= 0
        j3 == IF se THEN Ws1(t, j2 + 1) ELSE j2
        vb == Lower(Tok(t, j3))
        j4 == Ws1(t, j3 + 1)
        j5 == Ws1(t, j4 + 1)
        e  == DateAltDe(t, j5, "es")
    IN  IF /\ BoundaryBefore(t, i)
           /\ Lower(Tok(t, i)) \in {"la", "las"}
           /\ j1 /= 0 /\ Lower(Tok(t, j1)) \in {"inscripcione", "inscripciones"}
           /\ j2 /= 0
           /\ vb \in {"abrirán", "abriran", "abren"}
           /\ j4 /= 0 /\ Lower(Tok(t, j4)) = "el"
           /\ j5 /= 0 /\ e /= 0
        THEN [end |-> e,
              frag |-> JoinGroups(<<<<t[i]>>,
                                    IF se THEN Slice(t, j2, j3 - 1) ELSE <<>>,
                                    <<CASE vb = "abrirán" -> "irán"
                                        [] vb = "abriran" -> "iran"
                                        [] OTHER -> "en">>,
                                    Slice(t, j5, e - 1)>>)]
        ELSE NoPhrase

\* \bapertura de inscripciones\s+(el|en)\s+(<date es>)
Phrase4(t, i) ==
    LET j1 == Ws1(t, i + 5)
        j2 == Ws1(t, j1 + 1)
        e  == DateAltDe(t, j2, "es")
    IN  IF /\ BoundaryBefore(t, i)
           /\ Lower(Tok(t, i)) = "apertura" /\ Tok(t, i + 1) = SP
           /\ Lower(Tok(t, i + 2)) = "de" /\ Tok(t, i + 3) = SP
           /\ Lower(Tok(t, i + 4)) = "inscripciones"
           /\ j1 /= 0 /\ Lower(Tok(t, j1)) \in {"el", "en"}
           /\ j2 /= 0 /\ e /= 0
        THEN [end |-> e, frag |-> JoinGroups(<<<<t[j1]>>, Slice(t, j2, e - 1)>>)]
        ELSE NoPhrase

\* \b(inscri[cç][õo]es?)\s+(abrem|abrir[aã]o)\s+em\s+(<date pt>)
Phrase5(t, i) ==
    LET j1 == Ws1(t, i + 1)
        j2 == Ws1(t, j1 + 1)
        j3 == Ws1(t, j2 + 1)
        e  == DateAltDe(t, j3, "pt")
    IN  IF /\ BoundaryBefore(t, i)
           /\ Lower(Tok(t, i)) \in {"inscrições", "inscricoes", "inscriçoes",
                                    "inscricões", "inscriçõe", "inscricoe",
                                    "inscriçoe", "inscricõe"}
           /\ j1 /= 0 /\ Lower(Tok(t, j1)) \in {"abrem", "abrirão", "abrirao"}
           /\ j2 /= 0 /\ Lower(Tok(t, j2)) = "em"
           /\ j3 /= 0 /\ e /= 0
        THEN [end |-> e,
              frag |-> JoinGroups(<<<<t[i]>>, <<t[j1]>>, Slice(t, j3, e - 1)>>)]
        ELSE NoPhrase

OPENING_PHRASES ==
    <<"en_registration", "en_opens", "es_inscripciones", "es_apertura",
      "pt_inscricoes">>

NPhrases == Len(OPENING_PHRASES)

PhraseAt(k, t, i) ==
    CASE k = 1 -> Phrase1(t, i)
      [] k = 2 -> Phrase2(t, i)
      [] k = 3 -> Phrase3(t, i)
      [] k = 4 -> Phrase4(t, i)
      [] k = 5 -> Phrase5(t, i)

RECURSIVE SearchFrom(_, _, _)
\* pat.search(text): the leftmost match of phrase k, NoPhrase if none
SearchFrom(k, t, i) ==
    IF i > Len(t) THEN NoPhrase
    ELSE LET m == PhraseAt(k, t, i)
         IN  IF m.end /= 0 THEN m ELSE SearchFrom(k, t, i + 1)

PhraseSearch(k, t) == SearchFrom(k, t, 1)

RECURSIVE ExtractFrom(_, _)
\* the loop of extract_opening_date from phrase k on: a date is returned by
\* the first phrase that matches AND whose fragment parses (if d: return d)
ExtractFrom(text, k) ==
    IF k > NPhrases THEN None
    ELSE LET m == PhraseSearch(k, text)
             d == IF m.end /= 0 THEN parse_date_fragment(m.frag) ELSE None
         IN  IF d /= None THEN d ELSE ExtractFrom(text, k + 1)

RECURSIVE ExtractFirstMatchOnly(_, _)
\* a variant that stops at the first phrase that matches, parse or not
ExtractFirstMatchOnly(text, k) ==
    IF k > NPhrases THEN None
    ELSE LET m == PhraseSearch(k, text)
         IN  IF m.end /= 0 THEN parse_date_fragment(m.frag)
             ELSE ExtractFirstMatchOnly(text, k + 1)

extract_opening_date_first_match(text) == ExtractFirstMatchOnly(text, 1)

extract_opening_date(text) == ExtractFrom(text, 1)

(***************************************************************************)
(* Harness for the two pure functions: the input is drawn from a bounded   *)
(* set of fragments and page texts, then one of the functions is applied.  *)
(***************************************************************************)
Cat(a, b) ==
    IF a = <<>> THEN b ELSE IF b = <<>> THEN a ELSE a \o <<SP>> \o b

\* D<sep>M<sep>Y
NumericFrags ==
    {<<d, s1, m, s2, y>> : d \in {"10", "01", "31"}, m \in {"01", "12"},
                           s1 \in {"/", "-"}, s2 \in {"/", "-"}, y \in {"2026"}}

\* D de <month> de Y
LongDeFrags ==
    {<<d, SP, "de", SP, mon, SP, "De", SP, "2026">> :
        d \in {"10", "31", "0", "45"},
        mon \in {"janeiro", "fevereiro", "março", "marco", "marzo", "Enero", "foo"}}

\* <month> D, Y
EnLongFrags ==
    {<<mon, SP, d, ",", SP, "2028">> :
        mon \in {"January", "february", "Foo", "Jan"}, d \in {"10", "31"}}

\* D <month> Y
DayMonFrags ==
    {<<d, SP, mon, SP, SP, "2026">> :
        mon \in {"January", "Jan", "janeiro", "enero", "de"}, d \in {"10", "45"}}

OtherFrags ==
    {<<>>, <<"10", "/", "-", ".", "/", "-", ".", "2026">>,
     <<"s", SP, "will", SP, SP, "January", SP, "10", ",", SP, "2026">>}

Snippets ==
    {<<>>,
     <<"Registration", SP, "opens", SP, "on", SP, "January", SP, "10", ",", SP, "2026">>,
     <<"registration", SP, "opens", SP, "on", SP, "10", "/", "01", "/", "2026">>,
     <<"Registrations", SP, "will", SP, "open", SP, "on", SP, "12", SP, "Jan", SP, "2026">>,
     <<"opens", SP, "on", SP, SP, "January", SP, "12", ",", SP, "2026">>,
     <<"opens", SP, "on", SP, "Foo", SP, "10", ",", SP, "2026">>,
     <<"registration", SP, "opens", SP, SP, "on", SP, "January", SP, "10", ",", SP, "2026">>,
     <<"las", SP, "inscripciones", SP, "se", SP, "abrirán", SP, "el", SP,
       "10", SP, "de", SP, "marzo", SP, "de", SP, "2026">>,
     <<"apertura", SP, "de", SP, "inscripciones", SP, "el", SP,
       "5", SP, "de", SP, "enero", SP, "de", SP, "2026">>,
     <<"inscrições", SP, "abrem", SP, "em", SP,
       "14", SP, "de", SP, "janeiro", SP, "de", SP, "2026">>,
     <<"inscrições", SP, "abrem", SP, "em", SP,
       "31", SP, "de", SP, "fevereiro", SP, "de", SP, "2026">>}

Texts == {Cat(a, b) : a \in Snippets, b \in Snippets}

ParseInputs ==
    NumericFrags \cup LongDeFrags \cup EnLongFrags \cup DayMonFrags
        \cup OtherFrags \cup Texts

ParseOff == ptext = <<>> /\ pres = None /\ ppc = "off"

ApplyParse ==
    /\ ppc = "in"
    /\ pres' = parse_date_fragment(ptext)
    /\ ppc' = "parsed"
    /\ UNCHANGED <<ptext, mainVars>>

ApplyExtract ==
    /\ ppc = "in"
    /\ pres' = extract_opening_date(ptext)
    /\ ppc' = "extracted"
    /\ UNCHANGED <<ptext, mainVars>>

(***************************************************************************)
(* Keyword classification                                                  *)
(***************************************************************************)
RECURSIVE Collapse(_)
\* re.sub(r'\s+', ' ', s): every run of blanks becomes one blank
Collapse(t) ==
    IF Len(t) <= 1 THEN t
    ELSE IF t[1] = SP /\ t[2] = SP THEN Collapse(Tail(t))
    ELSE <<t[1]>> \o Collapse(Tail(t))

\* str.strip()
Strip(t) ==
    LET a == IF Len(t) > 0 /\ t[1] = SP THEN Tail(t) ELSE t
    IN  IF Len(a) > 0 /\ a[Len(a)] = SP THEN SubSeq(a, 1, Len(a) - 1) ELSE a

\* norm: collapse blanks, strip, lower-case
norm(t) == LowerSeq(Strip(Collapse(t)))

\* k in low: k occurs in low as a contiguous run of tokens
Contains(low, k) ==
    \E i \in 0..(Len(low) - Len(k)) : \A j \in 1..Len(k) : low[i + j] = k[j]

\* watch_races: [k for k in kw if k and k in low]
Hits(kw, low) == SelectSeq(kw, LAMBDA k : k /= <<>> /\ Contains(low, k))

\* check_registrations.find_any: the text is normalised, the patterns are not
find_any(text, patterns) ==
    \E i \in 1..Len(patterns) : Contains(norm(text), patterns[i])

(***************************************************************************)
(* watch_races: evaluation of one page (main, lines 174-196)               *)
(***************************************************************************)
NoReason == [k |-> "none", hits |-> <<>>, date |-> None, delta |-> 0]

\* f"Status indica fechamento ({', '.join(hit_block)})."
ClosedReason(hit_block) == [k |-> "closed", hits |-> hit_block, date |-> None, delta |-> 0]

\* f"Abertura de inscrições detectada: **{d_open:%d/%m/%Y}** (faltam {delta} dias)."
DateReason(d_open, delta) == [k |-> "date", hits |-> <<>>, date |-> d_open, delta |-> delta]

\* f"Palavras-chave encontradas: {', '.join(hit_any)}."
KeywordReason(hit_any) == [k |-> "kw", hits |-> hit_any, date |-> None, delta |-> 0]

\* days_until(d) with date.today() = today
days_until(d, today) == ToOrdinal(d) - today

\* a variant in which any block hit closes the page, date or not
EvaluateBlockFirst(hit_any, hit_block, d_open, today, window_days) ==
    IF hit_block /= <<>>
    THEN [status |-> "closed", notify |-> FALSE, reason |-> ClosedReason(hit_block)]
    ELSE IF d_open /= None /\ days_until(d_open, today) >= 0
            /\ days_until(d_open, today) <= window_days
    THEN [status |-> "unset", notify |-> TRUE,
          reason |-> DateReason(d_open, days_until(d_open, today))]
    ELSE IF hit_any /= <<>>
    THEN [status |-> "unset", notify |-> TRUE, reason |-> KeywordReason(hit_any)]
    ELSE [status |-> "unset", notify |-> FALSE, reason |-> NoReason]

\* lines 183-196: the rules in the order of the code
Evaluate(hit_any, hit_block, d_open, today, window_days) ==
    IF hit_block /= <<>> /\ hit_any = <<>> /\ d_open = None
    THEN [status |-> "closed", notify |-> FALSE, reason |-> ClosedReason(hit_block)]
    ELSE LET delta  == days_until(d_open, today)
             byDate == d_open /= None /\ delta >= 0 /\ delta <= window_days
         IN  IF byDate
             THEN [status |-> "unset", notify |-> TRUE,
                   reason |-> DateReason(d_open, delta)]
             ELSE IF hit_any /= <<>>
             THEN [status |-> "unset", notify |-> TRUE,
                   reason |-> KeywordReason(hit_any)]
             ELSE [status |-> "unset", notify |-> FALSE, reason |-> NoReason]

\* hash_content(f"{url}|{reason}"): the digest of the pair, taken to be
\* collision free
hash_content(url, reason) == [url |-> url, reason |-> reason]

NoSig == [url |-> "", reason |-> NoReason]

\* no notification for a url so far
NoPage == [text |-> <<>>, sig |-> NoSig, when |-> -1]

\* no record for a url in state["last"]
NoRec == [sig |-> NoSig, when |-> -1]

\* lines 203-211: last_info and last_sig == sig and last_dt and
\* (now - last_dt) < timedelta(days=dedupe_days)
Suppressed(rec, sig, nowv, dedupe_days) ==
    rec /= NoRec /\ rec.sig = sig /\ rec.when >= 0
        /\ (nowv - rec.when) < dedupe_days

(***************************************************************************)
(* Bounds and inputs of the run model                                      *)
(***************************************************************************)
\* runs of the script that are explored
MaxRuns == 3

\* url iterations that are explored, over all runs: a run starts only when
\* the iterations of all its urls fit
MaxIters == 3

\* days the clock may advance in all
Horizon == 3

\* window_days and dedupe_days of the configuration document
WindowDays == 1

DedupeDays == 2

\* check_registrations: cutoff = now - timedelta(days=180)
RetentionDays == 180

\* the day of the first run: 2026-01-08
Today0 == ToOrdinal([y |-> 2026, m |-> 1, d |-> 8])

URLs == {"u1", "u2"}

KwAny == << <<"Open">>, <<"Register", SP, "Now">> >>

KwBlock == << <<"Closed">>, <<"Sold", SP, "Out">> >>

\* an event of events.yml / monitor.yml; ukind tells what `urls` holds: a
\* list, a string (iterated character by character) or an integer
Event(hasName, name, ukind, ulist) ==
    [hasName |-> hasName, name |-> name, ukind |-> ukind, ulist |-> ulist,
     keywords_any |-> KwAny, keywords_block |-> KwBlock]

EvA == Event(TRUE, "A", "list", <<"u1", "u2">>)

EvB == Event(TRUE, "B", "list", <<"u1">>)

EvNoName == Event(FALSE, "None", "list", <<"u2">>)

EvIntUrls == Event(TRUE, "C", "int", <<>>)

EvStrUrls == Event(TRUE, "D", "str", <<"h", "t">>)

Config(evs) ==
    [window_days |-> WindowDays, dedupe_days |-> DedupeDays, events |-> evs]

\* event lists that break the schema somewhere
BadEventLists ==
    {<<EvB, EvNoName>>, <<EvNoName, EvB>>, <<EvB, EvIntUrls>>,
     <<EvIntUrls, EvB>>, <<EvStrUrls, EvB>>}

\* a schema violation: an event without name, or whose urls is not a list
BadEvent(ev) == ~ev.hasName \/ ev.ukind /= "list"

BadConfig(c) == \E i \in 1..Len(c.events) : BadEvent(c.events[i])

\* visible text of the pages a url may serve
AnyParts == {<<>>, <<"Open">>}

\* a page with both positive keywords, in another case and spacing
BothKeywords == <<"open", SP, "Register", SP, SP, "now">>

BlockParts == {<<>>, <<"Sold", SP, "Out">>}

\* (the dated part has no word that contains a keyword: `k in low` is a
\* substring test, Contains compares whole tokens)
DateParts ==
    {<<>>,
     <<"apertura", SP, "de", SP, "inscripciones", SP, "el", SP,
       "10", SP, "de", SP, "enero", SP, "de", SP, "2026">>}

Pages ==
    {Cat(a, Cat(b, d)) : a \in AnyParts, b \in BlockParts, d \in DateParts}
        \cup {BothKeywords}

\* extract_opening_date(text) of every page
OpeningDateOf == [text \in Pages |-> extract_opening_date(text)]

(***************************************************************************)
(* State                                                                   *)
(***************************************************************************)
\* watch_races: {"last": {url: {"sig", "when"}}}; hasKey is FALSE for a JSON
\* document without the top-level key
EmptyLast == [hasKey |-> TRUE, recs |-> [u \in URLs |-> NoRec]]

NoKeyLast == [hasKey |-> FALSE, recs |-> [u \in URLs |-> NoRec]]

\* check_registrations: {"alerts": [...]}
EmptyAlerts == [hasKey |-> TRUE, recs |-> <<>>]

NoKeyAlerts == [hasKey |-> FALSE, recs |-> <<>>]

Alert(name, url, ts) ==
    [event |-> name, url |-> url, reason |-> <<name, url>>, ts |-> ts]

File(kind, data) == [kind |-> kind, data |-> data]

WrDisks ==
    {File("absent", EmptyLast), File("corrupt", EmptyLast),
     File("json", NoKeyLast), File("json", EmptyLast)}

CrDisks ==
    {File("absent", EmptyAlerts), File("corrupt", EmptyAlerts),
     File("json", NoKeyAlerts), File("json", EmptyAlerts),
     File("json", [hasKey |-> TRUE,
                   recs |-> <<Alert("B", "u1", Today0 - RetentionDays - 1),
                              Alert("B", "u1", Today0 - 1)>>])}

NoLast ==
    [url |-> "", out |-> "none", hitAny |-> <<>>, hitBlock |-> <<>>,
     dOpen |-> None, today |-> 0, notify |-> FALSE, status |-> "unset",
     reason |-> NoReason, rec |-> NoRec, handed |-> FALSE, prevSent |-> -1,
     teams |-> "off", email |-> "off", text |-> <<>>]

NoSinks == [teams |-> FALSE, smtp |-> FALSE]

\* the deployments explored: one url with every sink setting, two urls with
\* every state file, and the configurations that break the schema
Deployments ==
    {[prog |-> "wr", cfg |-> Config(<<EvB>>), env |-> e, disk |-> File("absent", EmptyLast)] :
        e \in [teams : BOOLEAN, smtp : BOOLEAN]}
    \cup {[prog |-> "wr", cfg |-> Config(<<EvA>>), env |-> NoSinks, disk |-> f] :
        f \in WrDisks}
    \cup {[prog |-> "cr", cfg |-> Config(<<EvA>>), env |-> NoSinks, disk |-> f] :
        f \in CrDisks}
    \cup {[prog |-> "cr", cfg |-> Config(<<EvB, EvB>>), env |-> NoSinks, disk |-> f] :
        f \in CrDisks}
    \cup {[prog |-> "wr", cfg |-> Config(evs), env |-> NoSinks,
           disk |-> File("absent", EmptyLast)] : evs \in BadEventLists}
    \cup {[prog |-> "cr", cfg |-> Config(evs), env |-> NoSinks,
           disk |-> File("absent", EmptyAlerts)] : evs \in BadEventLists}

Init ==
    /\ \E dep \in Deployments :
          /\ prog = dep.prog
          /\ cfg = dep.cfg
          /\ env = dep.env
          /\ disk = dep.disk
    /\ openingDates = OpeningDateOf
    /\ now = Today0
    /\ state = IF prog = "wr" THEN EmptyLast ELSE EmptyAlerts
    /\ pc = "idle"
    /\ ei = 1
    /\ ui = 1
    /\ urls = <<>>
    /\ newAlerts = <<>>
    /\ runs = 0
    /\ iters = 0
    /\ saves = 0
    /\ fetched = 0
    /\ last = NoLast
    /\ lastSent = {}
    /\ lastPage = [u \in URLs |-> NoPage]
    /\ ParseOff

InitParse ==
    /\ prog = "parse"
    /\ cfg = [window_days |-> WindowDays, dedupe_days |-> DedupeDays, events |-> <<>>]
    /\ env = [teams |-> FALSE, smtp |-> FALSE]
    /\ openingDates = <<>>
    /\ now = Today0
    /\ disk = File("absent", EmptyLast)
    /\ state = EmptyLast
    /\ pc = "idle"
    /\ ei = 1
    /\ ui = 1
    /\ urls = <<>>
    /\ newAlerts = <<>>
    /\ runs = 0
    /\ iters = 0
    /\ saves = 0
    /\ fetched = 0
    /\ last = NoLast
    /\ lastSent = {}
    /\ lastPage = [u \in URLs |-> NoPage]
    /\ ptext \in ParseInputs
    /\ pres = None
    /\ ppc = "in"

NextParse == ApplyParse \/ ApplyExtract

SpecParse == InitParse /\ [][NextParse]_vars

(***************************************************************************)
(* The loops common to both scripts                                        *)
(***************************************************************************)
Events == cfg.events

RECURSIVE UrlCount(_)
\* the url iterations of one run over the event list
UrlCount(evs) ==
    IF evs = <<>> THEN 0 ELSE Len(Head(evs).ulist) + UrlCount(Tail(evs))

\* the bound of the exploration
MayStart == runs < MaxRuns /\ iters + UrlCount(Events) <= MaxIters

\* the url loop moves to the next url, or back to the event loop
Advance ==
    IF ui < Len(urls)
    THEN /\ ui' = ui + 1
         /\ UNCHANGED <<pc, ei, urls>>
    ELSE /\ pc' = "events"
         /\ ei' = ei + 1
         /\ ui' = 1
         /\ UNCHANGED urls

\* an exception leaves main: nothing after the raise runs
Abort(why) ==
    /\ pc' = "aborted"
    /\ last' = [NoLast EXCEPT !.out = why]

\* the clock moves between runs
Tick ==
    /\ prog \in {"wr", "cr"}
    /\ pc \in {"idle", "aborted"}
    /\ now < Today0 + Horizon
    /\ now' = now + 1
    /\ UNCHANGED <<prog, cfg, openingDates, env, disk, state, pc, ei, ui, urls, newAlerts,
                   runs, iters, fetched, saves, last, lastSent, lastPage, parseVars>>

(***************************************************************************)
(* watch_races.main                                                        *)
(***************************************************************************)
\* load_state: the default when the file is absent, json.load otherwise
\* (which raises on a document that is not JSON)
WrLoadRaises(file) == file.kind = "corrupt"

WrLoadState(file) == IF file.kind = "absent" THEN EmptyLast ELSE file.data

\* lines 147-160: load_yaml, the env dictionary, load_state
WrStart ==
    /\ prog = "wr"
    /\ pc \in {"idle", "aborted"}
    /\ MayStart
    /\ runs' = runs + 1
    /\ fetched' = 0
    /\ IF WrLoadRaises(disk)
       THEN /\ Abort("state_unreadable")
            /\ UNCHANGED <<state, ei, ui, urls>>
       ELSE /\ state' = WrLoadState(disk)
            /\ pc' = "events"
            /\ ei' = 1
            /\ ui' = 1
            /\ urls' = <<>>
            /\ last' = NoLast
    /\ UNCHANGED <<prog, cfg, openingDates, env, now, disk, newAlerts, iters, saves, lastSent, lastPage,
                   parseVars>>

\* lines 162-168: the head of the event loop; ev.get('name') is None for an
\* event without name, `for url in urls` raises TypeError on an integer and
\* iterates the characters of a string
WrNextEvent ==
    /\ prog = "wr"
    /\ pc = "events"
    /\ ei <= Len(Events)
    /\ LET ev == Events[ei]
       IN  IF ev.ukind = "int"
           THEN /\ Abort("config_error")
                /\ UNCHANGED <<ei, ui, urls>>
           ELSE /\ urls' = ev.ulist
                /\ ui' = 1
                /\ IF ev.ulist = <<>>
                   THEN pc' = "events" /\ ei' = ei + 1
                   ELSE pc' = "urls" /\ ei' = ei
                /\ UNCHANGED last
    /\ UNCHANGED <<prog, cfg, openingDates, env, now, disk, state, newAlerts, runs, iters,
                   fetched, saves, lastSent, lastPage, parseVars>>

\* post_to_teams: off without webhook; a failed post is caught inside
TeamsOutcomes == IF env.teams THEN {"ok", "failed"} ELSE {"off"}

\* send_email: returns at once without SMTP_HOST/ALERT_EMAIL_TO; smtplib's
\* exceptions are not caught inside
EmailOutcomes == IF env.smtp THEN {"ok", "raised"} ELSE {"off"}

PrevSent(sig) ==
    IF \E r \in lastSent : r.sig = sig
    THEN (CHOOSE r \in lastSent : r.sig = sig).when
    ELSE -1

\* the findings of lines 172-196 for the page text
WrFinding(url, text) ==
    LET ev        == Events[ei]
        kw_any    == [i \in 1..Len(ev.keywords_any) |-> norm(ev.keywords_any[i])]
        kw_block  == [i \in 1..Len(ev.keywords_block) |-> norm(ev.keywords_block[i])]
        low       == norm(text)
        hit_any   == Hits(kw_any, low)
        hit_block == Hits(kw_block, low)
        d_open    == openingDates[text]
        r         == Evaluate(hit_any, hit_block, d_open, now, cfg.window_days)
    IN  [NoLast EXCEPT !.url = url, !.text = text,
                       !.hitAny = hit_any, !.hitBlock = hit_block,
                       !.dOpen = d_open, !.today = now, !.notify = r.notify,
                       !.status = r.status, !.reason = r.reason]

\* lines 198-220 for a fetched page: dedupe, the sinks, the record
WrDedupeAndNotify(f, teams, email) ==
    LET url == f.url
        sig == hash_content(url, f.reason)
        rec == state.recs[url]
    IN  IF ~f.notify
        THEN /\ last' = [f EXCEPT !.out = "no_news"]
             /\ UNCHANGED <<state, lastSent, lastPage>>
        ELSE IF ~state.hasKey
        THEN \* state["last"]: KeyError, caught by `except Exception`
             /\ last' = [f EXCEPT !.out = "state_key_error"]
             /\ UNCHANGED <<state, lastSent, lastPage>>
        ELSE IF Suppressed(rec, sig, now, cfg.dedupe_days)
        THEN /\ last' = [f EXCEPT !.out = "dedup", !.rec = rec]
             /\ UNCHANGED <<state, lastSent, lastPage>>
        ELSE /\ lastSent' = {r \in lastSent : r.sig /= sig}
                                \cup {[sig |-> sig, when |-> now]}
             /\ lastPage' = [lastPage EXCEPT ![url] =
                                [text |-> f.text, sig |-> sig, when |-> now]]
             /\ IF email = "raised"
                THEN \* the exception of send_email skips line 217
                     /\ last' = [f EXCEPT !.out = "sink_error", !.rec = rec,
                                          !.handed = TRUE,
                                          !.prevSent = PrevSent(sig),
                                          !.teams = teams, !.email = email]
                     /\ UNCHANGED state
                ELSE /\ last' = [f EXCEPT !.out = "notified", !.rec = rec,
                                          !.handed = TRUE,
                                          !.prevSent = PrevSent(sig),
                                          !.teams = teams, !.email = email]
                     /\ state' = [state EXCEPT !.recs[url] =
                                     [sig |-> sig, when |-> now]]

\* a variant in which a failed fetch drops the dedupe record of the url
WrFetchErrorForgets(url) ==
    /\ last' = [NoLast EXCEPT !.url = url, !.out = "fetch_error", !.today = now]
    /\ state' = [state EXCEPT !.recs[url] = NoRec]
    /\ UNCHANGED <<lastSent, lastPage>>

\* the except clauses of lines 223-226: a diagnostic, nothing else
WrFetchError(url) ==
    /\ last' = [NoLast EXCEPT !.url = url, !.out = "fetch_error", !.today = now]
    /\ UNCHANGED <<state, lastSent, lastPage>>

\* lines 168-226: one iteration of the url loop
WrUrl ==
    /\ prog = "wr"
    /\ pc = "urls"
    /\ LET url == urls[ui]
       IN  \/ /\ url \notin URLs
              \* urllib raises ValueError (unknown url type) before any I/O
              /\ last' = [NoLast EXCEPT !.url = url, !.out = "bad_url", !.today = now]
              /\ UNCHANGED <<state, lastSent, lastPage, fetched>>
           \/ /\ url \in URLs
              /\ fetched' = fetched + 1
              /\ WrFetchError(url)
           \/ /\ url \in URLs
              /\ fetched' = fetched + 1
              /\ \E text \in Pages, teams \in TeamsOutcomes, email \in EmailOutcomes :
                    WrDedupeAndNotify(WrFinding(url, text), teams, email)
    /\ Advance
    /\ iters' = iters + 1
    /\ UNCHANGED <<prog, cfg, openingDates, env, now, disk, newAlerts, runs, saves, parseVars>>

\* line 228: save_state(state)
WrSave ==
    /\ prog = "wr"
    /\ pc = "events"
    /\ ei > Len(Events)
    /\ disk' = File("json", state)
    /\ saves' = saves + 1
    /\ pc' = "idle"
    /\ UNCHANGED <<prog, cfg, openingDates, env, now, state, ei, ui, urls, newAlerts, runs,
                   iters, fetched, last, lastSent, lastPage, parseVars>>

(***************************************************************************)
(* check_registrations.main                                                *)
(***************************************************************************)
\* load_state: the default when the file is absent or json.load raises
CrLoadState(file) == IF file.kind = "json" THEN file.data ELSE EmptyAlerts

\* prev_alerts = state.get("alerts", [])
PrevAlerts == IF state.hasKey THEN state.recs ELSE <<>>

\* lines 102-111
CrStart ==
    /\ prog = "cr"
    /\ pc \in {"idle", "aborted"}
    /\ MayStart
    /\ runs' = runs + 1
    /\ fetched' = 0
    /\ state' = CrLoadState(disk)
    /\ newAlerts' = <<>>
    /\ pc' = "events"
    /\ ei' = 1
    /\ ui' = 1
    /\ urls' = <<>>
    /\ last' = NoLast
    /\ UNCHANGED <<prog, cfg, openingDates, env, now, disk, iters, saves, lastSent, lastPage, parseVars>>

\* lines 113-120: ev["name"] raises KeyError for an event without name
CrNextEvent ==
    /\ prog = "cr"
    /\ pc = "events"
    /\ ei <= Len(Events)
    /\ LET ev == Events[ei]
       IN  IF ~ev.hasName \/ ev.ukind = "int"
           THEN /\ Abort("config_error")
                /\ UNCHANGED <<ei, ui, urls>>
           ELSE /\ urls' = ev.ulist
                /\ ui' = 1
                /\ IF ev.ulist = <<>>
                   THEN pc' = "events" /\ ei' = ei + 1
                   ELSE pc' = "urls" /\ ei' = ei
                /\ UNCHANGED last
    /\ UNCHANGED <<prog, cfg, openingDates, env, now, disk, state, newAlerts, runs, iters,
                   fetched, saves, lastSent, lastPage, parseVars>>

\* a variant in which blocking terms are ignored
OpenedAnyOnly(text, kw_any, kw_block) == find_any(text, kw_any)

\* line 128: some opening term and NO blocking term
Opened(text, kw_any, kw_block) ==
    find_any(text, kw_any) /\ ~find_any(text, kw_block)

\* within_days(ts, days)
within_days(ts, days) == now - ts < days

\* lines 139-143
Duplicate(name, url, reason) ==
    \E i \in 1..Len(PrevAlerts) :
        /\ PrevAlerts[i].event = name
        /\ PrevAlerts[i].url = url
        /\ PrevAlerts[i].reason = reason
        /\ within_days(PrevAlerts[i].ts, cfg.dedupe_days)

\* lines 120-155: one iteration of the url loop (the 2026 dates that are
\* only printed are left out)
CrUrl ==
    /\ prog = "cr"
    /\ pc = "urls"
    /\ LET url  == urls[ui]
           ev   == Events[ei]
           kwa  == [i \in 1..Len(ev.keywords_any) |-> LowerSeq(ev.keywords_any[i])]
           kwb  == [i \in 1..Len(ev.keywords_block) |-> LowerSeq(ev.keywords_block[i])]
       IN  \/ /\ url \notin URLs
              \* Request(url) raises ValueError outside fetch's try block
              /\ Abort("bad_url")
              /\ UNCHANGED <<ei, ui, urls, newAlerts, fetched>>
           \/ /\ url \in URLs
              \* fetch returns "__HTTP_ERROR__ ...", "__URL_ERROR__ ..."
              /\ fetched' = fetched + 1
              /\ last' = [NoLast EXCEPT !.url = url, !.out = "fetch_error",
                                        !.today = now]
              /\ UNCHANGED newAlerts
              /\ Advance
           \/ /\ url \in URLs
              /\ fetched' = fetched + 1
              /\ \E text \in Pages :
                    LET opened == Opened(text, kwa, kwb)
                        reason == <<ev.name, url>>
                        dup    == Duplicate(ev.name, url, reason)
                        f      == [NoLast EXCEPT
                                      !.url = url, !.today = now,
                                      !.hitAny = Hits(kwa, norm(text)),
                                      !.hitBlock = Hits(kwb, norm(text)),
                                      !.notify = opened]
                    IN  IF ~opened
                        THEN /\ last' = [f EXCEPT !.out = "not_open"]
                             /\ UNCHANGED newAlerts
                        ELSE IF dup
                        THEN /\ last' = [f EXCEPT !.out = "open_dup"]
                             /\ UNCHANGED newAlerts
                        ELSE /\ last' = [f EXCEPT !.out = "open_new"]
                             /\ newAlerts' = Append(newAlerts, Alert(ev.name, url, now))
              /\ Advance
    /\ iters' = iters + 1
    /\ UNCHANGED <<prog, cfg, openingDates, env, now, disk, state, runs, saves, lastSent, lastPage, parseVars>>

\* lines 157-165: extend the history, drop what is older than 180 days, save
CrFinish ==
    /\ prog = "cr"
    /\ pc = "events"
    /\ ei > Len(Events)
    /\ IF newAlerts /= <<>>
       THEN LET all  == PrevAlerts \o newAlerts
                kept == SelectSeq(all, LAMBDA a : a.ts >= now - RetentionDays)
            IN  /\ state' = [hasKey |-> TRUE, recs |-> kept]
                /\ disk' = File("json", [hasKey |-> TRUE, recs |-> kept])
                /\ saves' = saves + 1
       ELSE UNCHANGED <<state, disk, saves>>
    /\ pc' = "idle"
    /\ UNCHANGED <<prog, cfg, openingDates, env, now, ei, ui, urls, newAlerts, runs, iters,
                   fetched, last, lastSent, lastPage, parseVars>>

Next ==
    \/ Tick
    \/ WrStart
    \/ WrNextEvent
    \/ WrUrl
    \/ WrSave
    \/ CrStart
    \/ CrNextEvent
    \/ CrUrl
    \/ CrFinish

Spec == Init /\ [][Next]_vars

(***************************************************************************)
(* Properties                                                              *)
(***************************************************************************)
\* the latest url iteration of watch_races fetched a page and evaluated it
WrEvaluated ==
    prog = "wr" /\ last.out \in {"no_news", "state_key_error", "dedup",
                                 "notified", "sink_error"}

\* the latest url iteration of check_registrations evaluated a page
CrEvaluated == prog = "cr" /\ last.out \in {"not_open", "open_dup", "open_new"}

LastSig == hash_content(last.url, last.reason)

\* C1 (as claimed): two notifications that carry the same signature are never
\* less than dedupe_days apart, also when a notification with another reason
\* for the same url happens in between.  Stated for the deployments in which
\* no sink can fail and the configuration is well formed, so that every
\* notification handed to the sinks is also recorded and saved.
C1_SameSignatureOncePerWindow ==
    (prog = "wr" /\ ~env.smtp /\ ~BadConfig(cfg) /\ last.handed /\ last.prevSent >= 0)
        => (last.today - last.prevSent >= cfg.dedupe_days)

\* C2: the evaluation of a page is the first applicable of the four rules:
\* (1) block hit, no positive hit, no date: CLOSED, no notification;
\* (2) a date with 0 <= days_until <= window_days: notification stating the date;
\* (3) a positive hit: notification citing the keywords; (4) no notification.
C2_FourRules ==
    WrEvaluated =>
        LET any   == last.hitAny /= <<>>
            blk   == last.hitBlock /= <<>>
            dated == last.dOpen /= None
            delta == ToOrdinal(last.dOpen) - last.today
            inWin == dated /\ 0 <= delta /\ delta <= cfg.window_days
        IN  /\ (blk /\ ~any /\ ~dated) =>
                   /\ last.status = "closed"
                   /\ ~last.notify
                   /\ last.reason.k = "closed"
                   /\ last.reason.hits = last.hitBlock
            /\ (~(blk /\ ~any /\ ~dated) /\ inWin) =>
                   /\ last.notify
                   /\ last.reason.k = "date"
                   /\ last.reason.date = last.dOpen
                   /\ last.reason.delta = delta
            /\ (~(blk /\ ~any /\ ~dated) /\ ~inWin /\ any) =>
                   /\ last.notify
                   /\ last.reason.k = "kw"
                   /\ last.reason.hits = last.hitAny
            /\ (~(blk /\ ~any /\ ~dated) /\ ~inWin /\ ~any) => ~last.notify

\* C2 witness: a block hit together with an in-window date has notified
C2_Witness ==
    /\ WrEvaluated
    /\ last.hitBlock /= <<>>
    /\ last.hitAny = <<>>
    /\ last.dOpen /= None
    /\ last.notify
    /\ last.reason.k = "date"

\* C3 (as claimed): a finding with notify=true is suppressed only if the stored
\* record of its url has the same signature and is less than dedupe_days old;
\* every other finding with notify=true is notified and recorded.  Stated for
\* a loaded state that has its "last" mapping.
C3_SuppressedOnlyIfSameSigInWindow ==
    (WrEvaluated /\ last.notify /\ state.hasKey) =>
        IF /\ last.rec /= NoRec
           /\ last.rec.sig = LastSig
           /\ last.today - last.rec.when < cfg.dedupe_days
        THEN last.out = "dedup"
        ELSE /\ last.out = "notified"
             /\ state.recs[last.url] = [sig |-> LastSig, when |-> last.today]

\* C4 (as claimed): in both scripts a page on which some keywords_any entry
\* matches is treated as open, whatever keywords_block entries match
C4_PositiveHitNeverBlocked ==
    ((WrEvaluated \/ CrEvaluated) /\ last.hitAny /= <<>>) => last.notify

\* C4 (amended): in watch_races a page with a positive hit always gets
\* notify=true; in check_registrations a page is open exactly when some
\* keywords_any entry matches and no keywords_block entry matches
C4_BlockSuppressesOnlyInCheckRegistrations ==
    /\ (WrEvaluated /\ last.hitAny /= <<>>) => last.notify
    /\ CrEvaluated => (last.notify <=> (last.hitAny /= <<>> /\ last.hitBlock = <<>>))

\* C4 witness: check_registrations evaluated a page with a positive and a
\* block hit and did not treat it as open
C4_Witness ==
    /\ CrEvaluated
    /\ last.hitAny /= <<>>
    /\ last.hitBlock /= <<>>
    /\ ~last.notify
    /\ last.out = "not_open"

\* the phrases that match the harness input, and those whose fragment parses
MatchingPhrases == {k \in 1..NPhrases : PhraseSearch(k, ptext).end /= 0}

ParsingPhrases ==
    {k \in MatchingPhrases : parse_date_fragment(PhraseSearch(k, ptext).frag) /= None}

Min(S) == CHOOSE x \in S : \A y \in S : x <= y

\* C5 (as claimed): the result depends only on the first phrase that matches;
\* when its fragment does not parse the result is none
C5_FirstMatchWins ==
    ppc = "extracted" =>
        pres = IF MatchingPhrases = {} THEN None
               ELSE parse_date_fragment(PhraseSearch(Min(MatchingPhrases), ptext).frag)

\* C5 (amended): the result is the date of the first phrase, in list order,
\* that matches and whose fragment parses; none only if there is no such phrase
C5_FirstParsingMatchWins ==
    ppc = "extracted" =>
        pres = IF ParsingPhrases = {} THEN None
               ELSE parse_date_fragment(PhraseSearch(Min(ParsingPhrases), ptext).frag)

\* C5 witness: the first matching phrase did not parse and a later one gave
\* the date
C5_Witness ==
    /\ ppc = "extracted"
    /\ pres /= None
    /\ ParsingPhrases /= {}
    /\ Min(MatchingPhrases) < Min(ParsingPhrases)

\* C6 (as claimed): a numeric fragment D/M/Y or D-M-Y of a calendar date
\* parses to (day=D, month=M, year=Y)
C6_NumericDayFirst ==
    (/\ ppc = "parsed"
     /\ Len(ptext) = 5
     /\ IsNum12(ptext[1]) /\ IsNum12(ptext[3]) /\ IsYear4(ptext[5])
     /\ ptext[2] \in {"/", "-"} /\ ptext[4] = ptext[2]
     /\ MkDate(YearVal[ptext[5]], NumVal[ptext[3]], NumVal[ptext[1]]) /= None)
        => pres = [y |-> YearVal[ptext[5]], m |-> NumVal[ptext[3]],
                   d |-> NumVal[ptext[1]]]

\* C7 (as claimed): every time a finding is handed to the sinks the dedupe
\* record of its url is then written with its signature and timestamp,
\* whatever the sinks do
C7_HandedThenRecorded ==
    (prog = "wr" /\ last.handed) =>
        /\ last.out = "notified"
        /\ state.recs[last.url] = [sig |-> LastSig, when |-> last.today]

\* a url iteration that ended in a fetch failure
FetchFailedStep ==
    pc = "urls" /\ iters' = iters + 1 /\ last'.out = "fetch_error"

\* C8: a fetch failure produces no finding and no notification, leaves the
\* dedupe state as it was, and the loop goes on with the next url or event
C8_FetchFailureIsolated ==
    [][FetchFailedStep =>
          /\ state' = state
          /\ disk' = disk
          /\ newAlerts' = newAlerts
          /\ lastSent' = lastSent
          /\ saves' = saves
          /\ ~last'.notify /\ ~last'.handed /\ last'.reason = NoReason
          /\ IF ui < Len(urls)
             THEN pc' = "urls" /\ ui' = ui + 1 /\ ei' = ei
             ELSE pc' = "events" /\ ei' = ei + 1]_vars

\* C8 witness: the first url of an event failed and the loop is at its second
C8_Witness ==
    /\ last.out = "fetch_error"
    /\ pc = "urls"
    /\ ui = 2
    /\ last.url = urls[1]

\* C9 (as claimed): with a schema violation anywhere in the event list no url
\* is fetched, no notification is sent and no state is written
C9_SchemaViolationBeforeAnyFetch ==
    BadConfig(cfg) =>
        /\ fetched = 0
        /\ saves = 0
        /\ lastSent = {}
        /\ newAlerts = <<>>

\* C10 (as claimed): loading the state never aborts a run, and a state file
\* without the top-level key counts as the empty state
C10_LoadNeverAborts ==
    last.out \notin {"state_unreadable", "state_key_error"}

\* a url iteration of watch_races that fetched the page and evaluated it
WrEvaluatedStep ==
    prog = "wr" /\ pc = "urls" /\ iters' = iters + 1
        /\ last'.out \in {"no_news", "state_key_error", "dedup", "notified", "sink_error"}

\* the latest earlier notification for the url was made for the page text
\* that the url serves now, its record is the stored one (it was written,
\* saved and loaded back), and it is less than dedupe_days old
EarlierSamePage ==
    LET p == lastPage[last'.url]
    IN  /\ p /= NoPage
        /\ p.text = last'.text
        /\ state.hasKey
        /\ state.recs[last'.url] = [sig |-> p.sig, when |-> p.when]
        /\ now - p.when < cfg.dedupe_days

\* C11 (as claimed): when a url serves the page text for which an earlier run
\* notified and recorded less than dedupe_days ago, the run does not notify
\* for it, whether the reason is a keyword or an opening date, and also when
\* the calendar day differs between the two runs
C11_SamePageNotNotifiedAgain ==
    [][(WrEvaluatedStep /\ EarlierSamePage) => ~last'.handed]_vars

====
